---- MODULE Spec2Model ----
(***************************************************************************)
(* Model of the edx-ora grading controller: the Submission / Grader        *)
(* (grading attempt) / Rubric records of controller/models.py, the result  *)
(* aggregation of Submission.get_all_successful_scores_and_feedback, and   *)
(* the staff grading views get_next_submission and save_grade of           *)
(* staff_grading/views.py.                                                 *)
(*                                                                         *)
(* staff_grading_util (StaffLocation / StaffCourse.next_item,              *)
(* set_instructor_grading_item_skipped) and grader_util                    *)
(* (create_and_handle_grader_object) are called by the views but are not   *)
(* part of the sources at hand; they are modelled from the written         *)
(* specification (sections 4.1, 4.2 and 5).                                *)
(***************************************************************************)
EXTENDS Integers, Sequences, FiniteSets, TLC

\* ------------------------------------------------------------------ bounds
\* Number of Submission rows.
NumSubmissions == 2
\* Largest number of Grader rows (grading attempts) in the store.
MaxGraders == 3
\* Largest number of RubricItem rows of one Rubric.
MaxItems == 3

\* ------------------------------------------------------- program constants
\* settings.MAX_GRADER_COUNT, read by get_all_successful_scores_and_feedback.
MAX_GRADER_COUNT == 2

\* class GraderStatus
GraderStatus == [failure |-> "F", success |-> "S"]

\* Mutant of SubmissionState: flagged is stored under a code of its own.
SubmissionState_OtherFlagCode ==
    [being_graded |-> "C", waiting_to_be_graded |-> "W", finished |-> "F",
     flagged |-> "X", skipped |-> "S"]

\* class SubmissionState
SubmissionState ==
    [being_graded |-> "C", waiting_to_be_graded |-> "W", finished |-> "F",
     flagged |-> "L", skipped |-> "S"]

\* GRADER_TYPE choices
GRADER_TYPE == {"ML", "IN", "PE", "SE", "NA", "BC"}

\* _INTERFACE_VERSION
INTERFACE_VERSION == 1

\* settings.MIN_TO_USE_ML and settings.MIN_TO_USE_PEER, read by get_problem_list.
MIN_TO_USE_ML == 1

MIN_TO_USE_PEER == 0

SubmissionIds == 1..NumSubmissions

\* The staff graders (LMS users) that issue requests.
Staff == {"g1", "g2"}

\* Submission.location and Submission.course_id are set by the LMS when the
\* submission is created and never change: both locations are problems of
\* course c1; course c2 has no submission.
Locations == <<"i4x://l1", "i4x://l2">>

LocationOf(s) == Locations[((s - 1) % Len(Locations)) + 1]

CourseOfLocation(l) == "c1"

CourseOf(s) == CourseOfLocation(LocationOf(s))

\* Submission.student_id
StudentOf(s) == s

\* Submission.preferred_grader_type, set when the submission is created: the
\* first submission asks for the machine grader, the others for none.
PreferredGraderTypeOf(s) == IF s = 1 THEN "ML" ELSE "NA"

VARIABLES
    submissions,  \* Submission rows: id -> [state, next_grader_type, previous_grader_type]
    graders,      \* Grader rows in creation order (the row's id is its index)
    request,      \* the operation performed last: a request to a view, or a call of a Submission method
    response,     \* the response of the view (NoResponse after a method call)
    result,       \* the value the method call returned or the exception it raised (NoResult after a request)
    handed        \* history: per submission, the staff it was handed to since its last skip / recorded attempt

vars == <<submissions, graders, request, response, result, handed>>

\* A request, remembered by its operation alone.
RequestOf(op) ==
    [op |-> op, grader_id |-> "", course_id |-> "", location |-> "",
     submission_id |-> 0, skipped |-> "None", method |-> "GET"]

NoRequest == RequestOf("none")

\* A call of a method of Submission row sid, remembered as the operation
\* performed last.
MethodCall(call, sid) == [RequestOf(call) EXCEPT !.submission_id = sid]

NoResponse ==
    [version |-> INTERFACE_VERSION, success |-> TRUE, error |-> "", msg |-> "",
     message |-> "", submission_id |-> 0, data |-> <<>>]

\* What a call of a Submission method gave: the method and its return value
\* (or the exception it raised).
MethodResult(call, value) == [call |-> call, value |-> value]

NoResult == MethodResult("none", <<>>)

\* util._success_response(data, _INTERFACE_VERSION), data holding a message
\* and / or a submission_id
SuccessResponse(message, sid) ==
    [version |-> INTERFACE_VERSION, success |-> TRUE, error |-> "", msg |-> "",
     message |-> message, submission_id |-> sid, data |-> <<>>]

\* util._error_response(error, _INTERFACE_VERSION, data={"msg": msg})
ErrorResponse(error, msg) ==
    [version |-> INTERFACE_VERSION, success |-> FALSE, error |-> error, msg |-> msg,
     message |-> "", submission_id |-> 0, data |-> <<>>]

\* util._success_response(data, _INTERFACE_VERSION), data holding a list or a
\* flag
DataResponse(data) == [SuccessResponse("", 0) EXCEPT !.data = data]

\* ---------------------------------------------------------------- helpers
\* An exception raised by the code, as a value: the caller sees it instead of
\* a return value.
Raise(name) == [exception |-> name]

IsException(v) == "exception" \in DOMAIN v

\* queryset.order_by("-<key>"): the members of S, largest key first.
RECURSIVE OrderByDesc(_, _)
OrderByDesc(S, key) ==
    IF S = {} THEN <<>>
    ELSE LET first == CHOOSE x \in S : \A y \in S : key[y] <= key[x]
         IN  <<first>> \o OrderByDesc(S \ {first}, key)

\* queryset.order_by("<key>"): the members of S, smallest key first.
RECURSIVE OrderByAsc(_, _)
OrderByAsc(S, key) ==
    IF S = {} THEN <<>>
    ELSE LET first == CHOOSE x \in S : \A y \in S : key[x] <= key[y]
         IN  <<first>> \o OrderByAsc(S \ {first}, key)

\* Python's seq[:n]
Take(seq, n) == SubSeq(seq, 1, IF Len(seq) < n THEN Len(seq) ELSE n)

\* ------------------------------------------------- controller/models.py: Rubric
\* A RubricItem is [item_number, text, score]; score is the DecimalField
\* (two decimal places) counted in hundredths.  A Rubric is
\* [finished_scoring, items], items in insertion order.

\* Mutant of ItemsByNumber: the items are taken in insertion order.
ItemsByNumber_InsertionOrder(r) == [k \in 1..Len(r.items) |-> k]

\* rubricitem_set.all().order_by('item_number'): positions of the items of
\* rubric r, ordered by item_number.
ItemsByNumber(r) ==
    OrderByAsc(DOMAIN r.items, [i \in DOMAIN r.items |-> r.items[i].item_number])

\* int(Decimal): truncation of a (non-negative) decimal held in hundredths.
IntOfDecimal(d) == d \div 100

\* float(Decimal): the same number, kept in hundredths.
FloatOfDecimal(d) == d

\* RubricItem.format_rubric_item: category with description and int(score).
format_rubric_item(ri) == <<"category", ri.text, IntOfDecimal(ri.score)>>

\* Rubric.format_rubric
format_rubric(r) ==
    LET order == ItemsByNumber(r)
    IN  <<  <<"rubric">>  >>
        \o [k \in 1..Len(order) |-> format_rubric_item(r.items[order[k]])]
        \o <<  <<"/rubric">>  >>

\* Rubric.get_rubric_scores
get_rubric_scores(r) ==
    LET order == ItemsByNumber(r)
    IN  [k \in 1..Len(order) |-> FloatOfDecimal(r.items[order[k]].score)]

\* Rubric.get_rubric_headers
get_rubric_headers(r) ==
    LET order == ItemsByNumber(r)
    IN  [k \in 1..Len(order) |-> r.items[order[k]].text]

\* ------------------------------------------------- controller/models.py: Grader
\* A Grader row is [submission, score, feedback, status_code, date_created,
\* date_modified, grader_id, grader_type, confidence, rubric_set]; rubric_set
\* holds the row's Rubric rows in creation order.

\* Grader.has_rubric
has_rubric(g) == Len(g.rubric_set) > 0

\* Grader.get_latest_rubric: the finished rubric created last; indexing the
\* empty queryset raises IndexError.
get_latest_rubric(g) ==
    LET finished == {k \in DOMAIN g.rubric_set : g.rubric_set[k].finished_scoring}
        ordered == OrderByDesc(finished, [k \in finished |-> k])
    IN  IF Len(ordered) = 0 THEN Raise("IndexError") ELSE g.rubric_set[ordered[1]]

\* Grader.check_for_and_return_latest_rubric (the empty string is the empty sequence)
check_for_and_return_latest_rubric(g) ==
    IF has_rubric(g)
    THEN LET latest_rubric_object == get_latest_rubric(g)
         IN  IF IsException(latest_rubric_object) THEN latest_rubric_object
             ELSE [rubric_xml |-> format_rubric(latest_rubric_object),
                   rubric_scores_complete |-> TRUE]
    ELSE [rubric_xml |-> <<>>, rubric_scores_complete |-> FALSE]

\* Grader.get_latest_rubric_headers_and_scores
get_latest_rubric_headers_and_scores(g) ==
    IF has_rubric(g)
    THEN LET latest_rubric_object == get_latest_rubric(g)
         IN  IF IsException(latest_rubric_object) THEN latest_rubric_object
             ELSE [rubric_headers |-> get_rubric_headers(latest_rubric_object),
                   rubric_scores |-> get_rubric_scores(latest_rubric_object)]
    ELSE [rubric_headers |-> <<>>, rubric_scores |-> <<>>]

\* --------------------------------------------- controller/models.py: Submission
\* Submission.get_all_graders: ids of the Grader rows of submission sid.
get_all_graders(sid, G) == {i \in DOMAIN G : G[i].submission = sid}

\* Submission.get_successful_graders
get_successful_graders(sid, G) ==
    {i \in get_all_graders(sid, G) : G[i].status_code = GraderStatus.success}

\* Submission.get_unsuccessful_graders
get_unsuccessful_graders(sid, G) ==
    {i \in get_all_graders(sid, G) : G[i].status_code = GraderStatus.failure}

\* .order_by("-date_modified") over Grader ids
OrderByDateModifiedDesc(ids, G) ==
    OrderByDesc(ids, [i \in ids |-> G[i].date_modified])

\* dict.update: the keys of extra replace those of base; an exception raised
\* while computing extra propagates.
Update(base, extra) ==
    IF IsException(base) THEN base
    ELSE IF IsException(extra) THEN extra
    ELSE extra @@ base

\* Mutant of IsSingleResult: the ML grader is not taken as authoritative.
IsSingleResult_InstructorOnly(all_graders, all_graders_types, G) ==
    \/ G[all_graders[1]].grader_type = "IN"
    \/ /\ G[all_graders[1]].grader_type = "BC"
       /\ "PE" \notin all_graders_types

\* Mutant of IsSingleResult: a newest basic check is reported alone even
\* next to successful peer attempts.
IsSingleResult_BasicCheckAlways(all_graders, all_graders_types, G) ==
    G[all_graders[1]].grader_type \in {"IN", "ML", "BC"}

\* models.py lines 155-156: the newest successful grader is authoritative.
IsSingleResult(all_graders, all_graders_types, G) ==
    \/ G[all_graders[1]].grader_type \in {"IN", "ML"}
    \/ /\ G[all_graders[1]].grader_type = "BC"
       /\ "PE" \notin all_graders_types

\* Mutant of IsPeerResult: a newest successful peer attempt is enough,
\* whatever previous_grader_type says.
IsPeerResult_NewestPeer(previous_grader_type, all_graders, all_graders_types, G) ==
    \/ previous_grader_type = "PE"
    \/ G[all_graders[1]].grader_type = "PE"
    \/ /\ G[all_graders[1]].grader_type = "BC"
       /\ "PE" \in all_graders_types

\* models.py lines 164-165: the peer judgements are sent back.
IsPeerResult(previous_grader_type, all_graders, all_graders_types, G) ==
    \/ previous_grader_type = "PE"
    \/ /\ G[all_graders[1]].grader_type = "BC"
       /\ "PE" \in all_graders_types

\* Mutant of PeerGraders: the [:MAX_GRADER_COUNT] slice is missing.
PeerGraders_NoLimit(all_graders, G) ==
    SelectSeq(all_graders, LAMBDA p : G[p].grader_type = "PE")

\* models.py line 166: the peer graders reported, newest first.
PeerGraders(all_graders, G) ==
    Take(SelectSeq(all_graders, LAMBDA p : G[p].grader_type = "PE"), MAX_GRADER_COUNT)

\* models.py lines 148-153: no grader succeeded.
FailedResult(sid, G) ==
    LET unsuccessful == OrderByDateModifiedDesc(get_unsuccessful_graders(sid, G), G)
    IN  IF Len(unsuccessful) = 0 THEN Raise("IndexError")
        ELSE LET last_grader == unsuccessful[1]
                 return_dict ==
                     [score |-> 0, feedback |-> G[last_grader].feedback,
                      grader_type |-> G[last_grader].grader_type, success |-> FALSE,
                      grader_id |-> last_grader, submission_id |-> sid,
                      student_id |-> StudentOf(sid)]
             IN  Update(Update(return_dict,
                               check_for_and_return_latest_rubric(G[last_grader])),
                        get_latest_rubric_headers_and_scores(G[last_grader]))

\* models.py lines 157-162: the last successful grader alone.
SingleResult(sid, all_graders, G) ==
    LET g == all_graders[1]
        return_dict ==
            [score |-> G[g].score, feedback |-> G[g].feedback,
             grader_type |-> G[g].grader_type, success |-> TRUE,
             grader_id |-> g, submission_id |-> sid, student_id |-> StudentOf(sid)]
    IN  Update(Update(return_dict, check_for_and_return_latest_rubric(G[g])),
               get_latest_rubric_headers_and_scores(G[g]))

\* models.py lines 166-178: all peer judgements, as parallel lists.
PeerResult(sid, all_graders, G) ==
    LET peer_graders == PeerGraders(all_graders, G)
        n == Len(peer_graders)
        combined_rubrics ==
            [k \in 1..n |-> check_for_and_return_latest_rubric(G[peer_graders[k]])]
        headers_and_scores ==
            [k \in 1..n |-> get_latest_rubric_headers_and_scores(G[peer_graders[k]])]
    IN  IF \E k \in 1..n : IsException(combined_rubrics[k])
        THEN Raise("IndexError")
        ELSE [score |-> [k \in 1..n |-> G[peer_graders[k]].score],
              feedback |-> [k \in 1..n |-> G[peer_graders[k]].feedback],
              grader_type |-> "PE", success |-> TRUE,
              grader_id |-> peer_graders, submission_id |-> sid,
              rubric_xml |-> [k \in 1..n |-> combined_rubrics[k].rubric_xml],
              rubric_scores_complete |->
                  [k \in 1..n |-> combined_rubrics[k].rubric_scores_complete],
              rubric_headers |-> [k \in 1..n |-> headers_and_scores[k].rubric_headers],
              rubric_scores |-> [k \in 1..n |-> headers_and_scores[k].rubric_scores],
              student_id |-> StudentOf(sid)]

\* models.py lines 180-182: none of the rules applies.
InconsistentResult(sid, previous_grader_type) ==
    [score |-> -1, feedback |-> "There was an error with your submission.",
     grader_type |-> previous_grader_type, success |-> FALSE,
     rubric_scores_complete |-> FALSE, rubric_xml |-> <<>>,
     rubric_headers |-> <<>>, rubric_scores |-> <<>>, student_id |-> StudentOf(sid)]

\* Submission.get_all_successful_scores_and_feedback, for submission sid
\* with row sub, over the Grader rows G.
get_all_successful_scores_and_feedback(sid, sub, G) ==
    LET all_graders == OrderByDateModifiedDesc(get_successful_graders(sid, G), G)
        all_graders_types == {G[all_graders[k]].grader_type : k \in DOMAIN all_graders}
    IN  IF Len(all_graders) = 0 THEN FailedResult(sid, G)
        ELSE IF IsSingleResult(all_graders, all_graders_types, G)
             THEN SingleResult(sid, all_graders, G)
        ELSE IF IsPeerResult(sub.previous_grader_type, all_graders, all_graders_types, G)
             THEN PeerResult(sid, all_graders, G)
        ELSE InconsistentResult(sid, sub.previous_grader_type)

\* ------------------------------------------------------ grading attempts
\* Rubric items as they are stored for one rubric: inserted out of
\* item_number order, the first with a fractional score (2.50).
RubricItems ==
    << [item_number |-> 2, text |-> "Grammar", score |-> 100],
       [item_number |-> 1, text |-> "Clarity", score |-> 250] >>

\* The rubric_set of a new Grader row: no rubric, a rubric that was never
\* finished (Rubric.finished_scoring defaults to False), or a finished
\* rubric followed by a later unfinished one.
NoRubric == <<>>

UnfinishedRubric == << [finished_scoring |-> FALSE, items |-> RubricItems] >>

FinishedRubric ==
    << [finished_scoring |-> TRUE, items |-> RubricItems],
       [finished_scoring |-> FALSE, items |-> <<>>] >>

RubricSets == {NoRubric, UnfinishedRubric, FinishedRubric}

\* Grader types of the attempts other graders record.  Failed attempts come
\* from the machine grader and from peers ("humans always succeed" holds
\* for staff only).
SuccessTypes == {"IN", "ML", "PE", "BC", "SE"}

FailureTypes == {"ML", "PE"}

\* Feedback is free text the controller only copies: every row gets a text
\* of its own.
FeedbackOfRow(id) == <<"feedback of grader", id>>

\* Scores are integers the controller only copies: every row of the
\* aggregation model gets a score of its own, none of them 0 or -1.
ScoreOfRow(id) == 4 + id

\* Grader(...).save(): the new row, created and modified now (auto_now_add,
\* auto_now); timestamps count the saves.
NewGrader(sid, grader_id, grader_type, status_code, score, feedback, confidence, rubric_set, G) ==
    [submission |-> sid, score |-> score, feedback |-> feedback,
     status_code |-> status_code, date_created |-> Len(G) + 1,
     date_modified |-> Len(G) + 1, grader_id |-> grader_id,
     grader_type |-> grader_type, confidence |-> confidence,
     rubric_set |-> rubric_set]

\* Mutant of InsertGrader: a correction overwrites the row saved last.
InsertGrader_OverwritesLast(G, row) ==
    IF G = <<>> THEN <<row>> ELSE [G EXCEPT ![Len(G)] = row]

\* A new Grader row is inserted; the rows that exist are not written.
InsertGrader(G, row) == Append(G, row)

\* Mutant of get_last_grader: the row created first is taken.
get_last_grader_Oldest(sid, G) ==
    LET all_graders == get_all_graders(sid, G)
    IN  CHOOSE i \in all_graders :
            \A j \in all_graders : G[i].date_created <= G[j].date_created

\* Submission.get_last_grader: the id of the row created last.  The
\* submission has rows; without any, max() of the empty list raises
\* ValueError (see set_previous_grader_type).
get_last_grader(sid, G) ==
    LET all_graders == get_all_graders(sid, G)
    IN  CHOOSE i \in all_graders :
            \A j \in all_graders : G[j].date_created <= G[i].date_created

\* Submission.set_previous_grader_type: the saved row, or the exception
\* get_last_grader raises.
set_previous_grader_type(sid, sub, G) ==
    IF get_all_graders(sid, G) = {} THEN Raise("ValueError")
    ELSE [sub EXCEPT !.previous_grader_type = G[get_last_grader(sid, G)].grader_type]

\* Submission.get_last_successful_instructor_grader: score -1 and the empty
\* rubric without a successful instructor row, otherwise the score, rubric
\* and feedback of the one created last.
get_last_successful_instructor_grader(sid, G) ==
    LET instructors == {i \in get_all_graders(sid, G) :
                           /\ G[i].status_code = GraderStatus.success
                           /\ G[i].grader_type = "IN"}
        successful_instructor_graders ==
            OrderByDesc(instructors, [i \in instructors |-> G[i].date_created])
    IN  IF Len(successful_instructor_graders) = 0
        THEN [score |-> -1, rubric |-> <<>>]
        ELSE LET last_successful_instructor == G[successful_instructor_graders[1]]
                 latest_rubric ==
                     check_for_and_return_latest_rubric(last_successful_instructor)
             IN  IF IsException(latest_rubric) THEN latest_rubric
                 ELSE [score |-> last_successful_instructor.score,
                       rubric |-> latest_rubric.rubric_xml,
                       feedback |-> last_successful_instructor.feedback]

\* ------------------------------------------- aggregation over attempt histories
\* The submission whose attempts are aggregated.
AggSubmission == CHOOSE s \in SubmissionIds : \A other \in SubmissionIds : s <= other

NewSubmission(next_grader_type) ==
    [state |-> SubmissionState.waiting_to_be_graded,
     next_grader_type |-> next_grader_type, previous_grader_type |-> "NA"]

InitAgg ==
    /\ submissions = [s \in SubmissionIds |-> NewSubmission("NA")]
    /\ graders = <<>>
    /\ request = NoRequest
    /\ response = NoResponse
    /\ result = NoResult
    /\ handed = [s \in SubmissionIds |-> <<>>]

\* A grader other than course staff (machine grader, peer, basic check, self
\* assessment) records an attempt for the submission.
CreateGrader ==
    /\ Len(graders) < MaxGraders
    /\ \E status_code \in {GraderStatus.success, GraderStatus.failure} :
       \E grader_type \in (IF status_code = GraderStatus.success
                           THEN SuccessTypes ELSE FailureTypes) :
       \E rubric_set \in (IF status_code = GraderStatus.success
                          THEN RubricSets ELSE {NoRubric, UnfinishedRubric}) :
           graders' = InsertGrader(graders,
               NewGrader(AggSubmission, "1", grader_type, status_code,
                         ScoreOfRow(Len(graders) + 1), FeedbackOfRow(Len(graders) + 1),
                         0, rubric_set, graders))
    /\ result' = NoResult
    /\ UNCHANGED <<submissions, request, response, handed>>

\* Submission.set_previous_grader_type is called.
SetPreviousGraderType ==
    LET saved == set_previous_grader_type(AggSubmission, submissions[AggSubmission], graders)
    IN  /\ IF IsException(saved)
           THEN /\ result' = MethodResult("set_previous_grader_type", saved)
                /\ UNCHANGED submissions
           ELSE /\ result' = MethodResult("set_previous_grader_type",
                                           [return |-> "Save ok."])
                /\ submissions' = [submissions EXCEPT ![AggSubmission] = saved]
        /\ UNCHANGED <<graders, request, response, handed>>

\* Submission.get_all_successful_scores_and_feedback is called.
GetAggregateResult ==
    /\ result' = MethodResult("get_all_successful_scores_and_feedback",
                     get_all_successful_scores_and_feedback(
                         AggSubmission, submissions[AggSubmission], graders))
    /\ UNCHANGED <<submissions, graders, request, response, handed>>

\* Submission.get_last_successful_instructor_grader is called.
GetLastSuccessfulInstructorGrader ==
    /\ result' = MethodResult("get_last_successful_instructor_grader",
                     get_last_successful_instructor_grader(AggSubmission, graders))
    /\ UNCHANGED <<submissions, graders, request, response, handed>>

NextAgg ==
    \/ CreateGrader
    \/ SetPreviousGraderType
    \/ GetAggregateResult
    \/ GetLastSuccessfulInstructorGrader

SpecAgg == InitAgg /\ [][NextAgg]_vars

\* ------------------------------------------------- rubrics of any shape
\* The RubricItem rows one Rubric can own: up to MaxItems items in any
\* insertion order, each with an item_number of its own (the position of the
\* category in the problem's rubric), a text and a score.
ItemTexts == {"Clarity", "Grammar"}

ItemScores == {100, 250}

RubricItemRows == [item_number : 1..MaxItems, text : ItemTexts, score : ItemScores]

RubricItemSeqs ==
    UNION {{items \in [1..n -> RubricItemRows] :
                \A i, j \in 1..n :
                    items[i].item_number = items[j].item_number => i = j} :
           n \in 0..MaxItems}

\* The one Grader row of the rubric model owns one finished Rubric.
InitRubric ==
    /\ submissions = [s \in SubmissionIds |-> NewSubmission("NA")]
    /\ graders \in {<< NewGrader(AggSubmission, "1", "IN", GraderStatus.success,
                                ScoreOfRow(1), FeedbackOfRow(1), 0,
                                << [finished_scoring |-> TRUE, items |-> items] >>,
                                <<>>) >> : items \in RubricItemSeqs}
    /\ request = NoRequest
    /\ response = NoResponse
    /\ result = NoResult
    /\ handed = [s \in SubmissionIds |-> <<>>]

\* Grader.get_latest_rubric_headers_and_scores is called.
GetLatestRubricHeadersAndScores ==
    /\ result' = MethodResult("get_latest_rubric_headers_and_scores",
                     get_latest_rubric_headers_and_scores(graders[1]))
    /\ UNCHANGED <<submissions, graders, request, response, handed>>

\* Grader.check_for_and_return_latest_rubric is called.
CheckForAndReturnLatestRubric ==
    /\ result' = MethodResult("check_for_and_return_latest_rubric",
                     check_for_and_return_latest_rubric(graders[1]))
    /\ UNCHANGED <<submissions, graders, request, response, handed>>

NextRubric == GetLatestRubricHeadersAndScores \/ CheckForAndReturnLatestRubric

SpecRubric == InitRubric /\ [][NextRubric]_vars

\* --------------------------------- staff_grading_util (after the specification)
\* Mutant of InScope: the location of the request is not looked at.
InScope_IgnoresLocation(s, course_id, location) == CourseOf(s) = course_id

\* The scope of a request: the location when one is given, otherwise the course.
InScope(s, course_id, location) ==
    IF location # "" THEN LocationOf(s) = location ELSE CourseOf(s) = course_id

\* Mutant of IsPending: a submission that is being graded still counts as pending.
IsPending_IgnoresClaim(sub) ==
    /\ sub.state \in {SubmissionState.waiting_to_be_graded, SubmissionState.being_graded}
    /\ sub.next_grader_type = "IN"

\* A submission staff may be given: waiting to be graded, by an instructor next.
IsPending(sub) ==
    /\ sub.state = SubmissionState.waiting_to_be_graded
    /\ sub.next_grader_type = "IN"

\* StaffLocation(location).next_item() / StaffCourse(course_id).next_item():
\* the oldest pending submission of the scope, claimed (being_graded) in the
\* same step; (found, sid) and the rows as saved.
next_item(subs, course_id, location) ==
    LET pending == {s \in SubmissionIds :
                        InScope(s, course_id, location) /\ IsPending(subs[s])}
    IN  IF pending = {} THEN [found |-> FALSE, sid |-> 0, subs |-> subs]
        ELSE LET sid == CHOOSE s \in pending : \A other \in pending : s <= other
             IN  [found |-> TRUE, sid |-> sid,
                  subs |-> [subs EXCEPT ![sid].state = SubmissionState.being_graded]]

\* StaffLocation(location).pending_count(): the submissions of the location
\* that wait for staff.
pending_count(subs, location) ==
    Cardinality({s \in SubmissionIds :
                    LocationOf(s) = location /\ IsPending(subs[s])})

\* StaffLocation(location).graded_count(): the submissions of the location
\* that staff has graded and that are finished.
graded_count(subs, location) ==
    Cardinality({s \in SubmissionIds :
                    /\ LocationOf(s) = location
                    /\ subs[s].state = SubmissionState.finished
                    /\ subs[s].previous_grader_type = "IN"})

\* StaffCourse(course_id).notifications(): (success, staff_needs_to_grade),
\* whether a submission of the course waits for staff.
notifications(subs, course_id) ==
    [success |-> TRUE,
     staff_needs_to_grade |->
         \E s \in SubmissionIds : CourseOf(s) = course_id /\ IsPending(subs[s])]

\* Mutant of CanSkip: the skip does not look at the submission's state.
CanSkip_AnyState(sub) == TRUE

\* The pre-state a skip requires.
CanSkip(sub) == sub.state = SubmissionState.being_graded

\* set_instructor_grading_item_skipped(submission_id): (success, message) and
\* the rows as saved.
set_instructor_grading_item_skipped(subs, submission_id) ==
    IF submission_id \notin SubmissionIds
    THEN [success |-> FALSE, msg |-> "submission not found", subs |-> subs]
    ELSE IF ~CanSkip(subs[submission_id])
    THEN [success |-> FALSE, msg |-> "submission is not being graded", subs |-> subs]
    ELSE [success |-> TRUE, msg |-> "",
          subs |-> [subs EXCEPT
                       ![submission_id].state = SubmissionState.waiting_to_be_graded]]

\* ---------------------------------------- grader_util (after the specification)
\* Where the routing policy sends a submission after a successful instructor
\* attempt: finished, or on to another grader type.
Routes == {"finished", "PE"}

\* Mutant of CanRecord: the attempt is recorded whatever the submission's state.
CanRecord_AnyState(sub) == TRUE

\* The pre-state recording an attempt requires.
CanRecord(sub) == sub.state = SubmissionState.being_graded

\* create_and_handle_grader_object(d): success, and the Grader and Submission
\* rows as saved.  route is the routing policy's decision.
create_and_handle_grader_object(subs, G, d, route) ==
    IF ~CanRecord(subs[d.submission_id])
    THEN [success |-> FALSE, subs |-> subs, graders |-> G]
    ELSE LET sid == d.submission_id
             saved == InsertGrader(G, NewGrader(sid, d.grader_id, d.grader_type,
                                                d.status, d.score, d.feedback,
                                                d.confidence, d.rubric_set, G))
             recorded == set_previous_grader_type(sid, subs[sid], saved)
             moved ==
                 IF d.is_submission_flagged
                 THEN [recorded EXCEPT !.state = SubmissionState.flagged]
                 ELSE IF route = "finished"
                 THEN [recorded EXCEPT !.state = SubmissionState.finished]
                 ELSE [recorded EXCEPT !.state = SubmissionState.waiting_to_be_graded,
                                       !.next_grader_type = route]
         IN  [success |-> TRUE, subs |-> [subs EXCEPT ![sid] = moved], graders |-> saved]

\* ------------------------------------------------------ staff_grading/views.py
\* The scores clients send: int(score) of a literal, ValueError otherwise.
IntLiterals == [literal \in {"7"} |-> 7]

\* Mutant of SkipRequested: the skipped parameter is ignored.
SkipRequested_Never(skipped) == FALSE

\* views.py line 169: skipped = request.POST.get('skipped') == "True"
SkipRequested(skipped) == skipped = "True"

\* views.py lines 172-174: submission_flagged, compared in lower case
IsSubmissionFlagged(submission_flagged) ==
    submission_flagged \in {"true", "True", "TRUE"}

\* Mutant of Answer: a request that writes nothing else returns the
\* submissions that are being graded to the queue.
Answer_ReleasesClaims(req, resp) ==
    /\ request' = req
    /\ response' = resp
    /\ submissions' =
           [s \in SubmissionIds |->
               IF submissions[s].state = SubmissionState.being_graded
               THEN [submissions[s] EXCEPT
                        !.state = SubmissionState.waiting_to_be_graded]
               ELSE submissions[s]]
    /\ result' = NoResult
    /\ UNCHANGED <<graders, handed>>

\* The outcome of a request that changes no row.
Answer(req, resp) ==
    /\ request' = req
    /\ response' = resp
    /\ result' = NoResult
    /\ UNCHANGED <<submissions, graders, handed>>

\* Mutant of NotFoundResponse: nothing to grade is answered as an error.
NotFoundResponse_IsError == ErrorResponse("no_submission_to_grade", "")

\* views.py lines 90-92: nothing to grade is a success response that carries
\* a message only.
NotFoundResponse == SuccessResponse("no submission to grade", 0)

\* get_next_submission(request), GET with course_id, grader_id and location
\* ("" stands for a parameter that is not sent).  The request is remembered
\* with the scope the handler used: course_id is not read when a location is
\* given.
get_next_submission(course_id, grader_id, location) ==
    LET req == [op |-> "get_next_submission", grader_id |-> grader_id,
                course_id |-> IF location # "" THEN "" ELSE course_id,
                location |-> location,
                submission_id |-> 0, skipped |-> "None", method |-> "GET"]
        item == next_item(submissions, course_id, location)
    IN  IF (course_id = "" /\ location = "") \/ grader_id = ""
        THEN Answer(RequestOf("get_next_submission"),
                    ErrorResponse("required_parameter_missing", ""))
        ELSE IF ~item.found
        THEN Answer(req, NotFoundResponse)
        ELSE IF item.sid \notin SubmissionIds
        THEN /\ request' = req
             /\ response' = ErrorResponse("failed_to_load_submission", "")
             /\ submissions' = item.subs
             /\ result' = NoResult
             /\ UNCHANGED <<graders, handed>>
        ELSE IF item.subs[item.sid].state # SubmissionState.being_graded
        THEN /\ request' = req
             /\ response' = ErrorResponse("wrong_internal_state", "")
             /\ submissions' = item.subs
             /\ result' = NoResult
             /\ UNCHANGED <<graders, handed>>
        ELSE /\ request' = req
             /\ response' = SuccessResponse("", item.sid)
             /\ submissions' = item.subs
             /\ handed' = [handed EXCEPT ![item.sid] = Append(@, grader_id)]
             /\ result' = NoResult
             /\ UNCHANGED graders

GetNextSubmission ==
    \E course_id \in {"", "c1", "c2"} :
    \E location \in {""} \cup {Locations[k] : k \in DOMAIN Locations} :
    IF course_id = "" /\ location = ""
    THEN Answer(RequestOf("get_next_submission"),
                ErrorResponse("required_parameter_missing", ""))
    ELSE
    \E grader_id \in Staff \cup {""} :
        get_next_submission(course_id, grader_id, location)

\* views.py lines 207-209: rubric_functions.parse_rubric succeeds on the rubric
\* of the location's first submission.  The rubric of the first location
\* parses, that of the others does not.
RubricParses(s) == LocationOf(s) = Locations[1]

\* The rubric_set of an attempt staff records with rubric scores.
StaffRubric == << [finished_scoring |-> TRUE, items |-> RubricItems] >>

\* Mutant of GraderDict: the attempt is handed over as a failed one.
GraderDict_Failure(submission_id, score, feedback, grader_id, rubric, submission_flagged) ==
    [submission_id |-> submission_id, score |-> IntLiterals[score],
     feedback |-> feedback, grader_id |-> grader_id, grader_type |-> "IN",
     status |-> GraderStatus.failure, confidence |-> 1, errors |-> "",
     rubric_set |-> IF rubric = "valid" THEN StaffRubric ELSE NoRubric,
     is_submission_flagged |-> IsSubmissionFlagged(submission_flagged)]

\* views.py lines 220-234: the dictionary handed to create_and_handle_grader_object
GraderDict(submission_id, score, feedback, grader_id, rubric, submission_flagged) ==
    [submission_id |-> submission_id, score |-> IntLiterals[score],
     feedback |-> feedback, grader_id |-> grader_id, grader_type |-> "IN",
     status |-> GraderStatus.success, confidence |-> 1, errors |-> "",
     rubric_set |-> IF rubric = "valid" THEN StaffRubric ELSE NoRubric,
     is_submission_flagged |-> IsSubmissionFlagged(submission_flagged)]

\* Mutant of SaveGradeSkip: the skip is written and an error is answered.
SaveGradeSkip_WritesThenFails(req, submission_id) ==
    LET skip == set_instructor_grading_item_skipped(submissions, submission_id)
    IN  /\ request' = req
        /\ response' = ErrorResponse("skip failed", "")
        /\ submissions' = skip.subs
        /\ handed' = IF skip.success THEN [handed EXCEPT ![submission_id] = <<>>]
                     ELSE handed
        /\ result' = NoResult
        /\ UNCHANGED graders

\* views.py lines 182-188: the request skips the submission.
SaveGradeSkip(req, submission_id) ==
    LET skip == set_instructor_grading_item_skipped(submissions, submission_id)
    IN  IF ~skip.success
        THEN Answer(req, ErrorResponse(skip.msg, ""))
        ELSE /\ request' = req
             /\ response' = SuccessResponse("", 0)
             /\ submissions' = skip.subs
             /\ handed' = [handed EXCEPT ![submission_id] = <<>>]
             /\ result' = NoResult
             /\ UNCHANGED graders

\* views.py lines 220-243: the attempt is recorded.
SaveGradeRecord(req, d, route) ==
    LET made == create_and_handle_grader_object(submissions, graders, d, route)
    IN  IF ~made.success
        THEN Answer(req, ErrorResponse("grade_save_error", "Internal error"))
        ELSE /\ Len(graders) < MaxGraders
             /\ request' = req
             /\ response' = SuccessResponse("", 0)
             /\ submissions' = made.subs
             /\ graders' = made.graders
             /\ handed' = [handed EXCEPT ![d.submission_id] = <<>>]
             /\ result' = NoResult

\* views.py lines 190-243: the request grades the submission.  rubric is
\* what the submission's rubric and the rubric scores sent amount to: "none"
\* (the rubric does not parse), "valid", or "invalid" (the scores fail
\* validate_rubric_scores).
SaveGradeScore(req, grader_id, submission_id, score, feedback) ==
    IF score \notin DOMAIN IntLiterals
    THEN Answer(RequestOf("save_grade"),
                ErrorResponse("grade_save_error", "Expected integer score."))
    ELSE IF submission_id \notin SubmissionIds
    THEN Answer(RequestOf("save_grade"),
                ErrorResponse("grade_save_error", "Submission id is not valid."))
    ELSE \E rubric \in IF RubricParses(submission_id)
                        THEN {"valid", "invalid"} ELSE {"none"} :
         IF rubric = "invalid"
         THEN Answer(RequestOf("save_grade"),
                     ErrorResponse("grade_save_error", "rubric scores do not fit"))
         ELSE \E submission_flagged \in {"None", "True"} :
              \E route \in Routes :
                  SaveGradeRecord(req,
                      GraderDict(submission_id, score, feedback, grader_id, rubric,
                                 submission_flagged),
                      route)

\* save_grade(request).  Each parameter is drawn where the handler first
\* reads it: "" or "None" stands for a parameter that is not sent,
\* submission_id 0 for none and NumSubmissions + 1 for the id of no row.  A
\* request rejected before it reaches a submission is remembered by its
\* operation alone.
SaveGrade ==
    \E method \in {"POST", "GET"} :
    IF method # "POST"
    THEN Answer(RequestOf("save_grade"), ErrorResponse("Request needs to be GET", ""))
    ELSE
    \E course_id \in {"", "c1"} :
    IF course_id = ""
    THEN Answer(RequestOf("save_grade"), ErrorResponse("required_parameter_missing", ""))
    ELSE
    \E grader_id \in Staff \cup {""} :
    IF grader_id = ""
    THEN Answer(RequestOf("save_grade"), ErrorResponse("required_parameter_missing", ""))
    ELSE
    \E submission_id \in 0..(NumSubmissions + 1) :
    IF submission_id = 0
    THEN Answer(RequestOf("save_grade"), ErrorResponse("required_parameter_missing", ""))
    ELSE
    \E score \in {"None", "abc"} \cup DOMAIN IntLiterals :
    IF score = "None"
    THEN Answer(RequestOf("save_grade"), ErrorResponse("required_parameter_missing", ""))
    ELSE
    \E feedback \in {"None", "fine work"} :
    IF feedback = "None"
    THEN Answer(RequestOf("save_grade"), ErrorResponse("required_parameter_missing", ""))
    ELSE
    \E skipped \in {"True", "None"} :
        LET req == [op |-> "save_grade", grader_id |-> "", course_id |-> "",
                    location |-> "", submission_id |-> submission_id,
                    skipped |-> skipped, method |-> "POST"]
        IN  IF SkipRequested(skipped)
            THEN SaveGradeSkip(req, submission_id)
            ELSE SaveGradeScore(req, grader_id, submission_id, score, feedback)

\* The controller reads the result of a submission
\* (Submission.get_all_successful_scores_and_feedback), between any two
\* requests of staff.
ReadAggregateResult ==
    \E s \in SubmissionIds :
        /\ request' = MethodCall("get_all_successful_scores_and_feedback", s)
        /\ response' = NoResponse
        /\ result' = MethodResult("get_all_successful_scores_and_feedback",
                         get_all_successful_scores_and_feedback(s, submissions[s], graders))
        /\ UNCHANGED <<submissions, graders, handed>>

\* The controller reads the last instructor result of a submission
\* (Submission.get_last_successful_instructor_grader).
ReadLastInstructorResult ==
    \E s \in SubmissionIds :
        /\ request' = MethodCall("get_last_successful_instructor_grader", s)
        /\ response' = NoResponse
        /\ result' = MethodResult("get_last_successful_instructor_grader",
                         get_last_successful_instructor_grader(s, graders))
        /\ UNCHANGED <<submissions, graders, handed>>

\* Mutant of location_dict: num_required is the difference, not clamped at 0.
location_dict_NoClamp(subs, location) ==
    LET finished_instructor_graded == graded_count(subs, location)
        location_ml_count ==
            Cardinality({s \in SubmissionIds :
                            /\ LocationOf(s) = location
                            /\ PreferredGraderTypeOf(s) = "ML"})
        min_scored_for_location ==
            IF location_ml_count > 0 THEN MIN_TO_USE_ML ELSE MIN_TO_USE_PEER
    IN  [location |-> location,
         num_graded |-> finished_instructor_graded,
         num_pending |-> pending_count(subs, location),
         num_required |-> min_scored_for_location - finished_instructor_graded,
         min_for_ml |-> MIN_TO_USE_ML]

\* views.py lines 284-306: the entry of one location in the problem list.
\* problem_name comes from the submissions of the location and is left out.
location_dict(subs, location) ==
    LET submissions_pending == pending_count(subs, location)
        finished_instructor_graded == graded_count(subs, location)
        location_ml_count ==
            Cardinality({s \in SubmissionIds :
                            /\ LocationOf(s) = location
                            /\ PreferredGraderTypeOf(s) = "ML"})
        min_scored_for_location ==
            IF location_ml_count > 0 THEN MIN_TO_USE_ML ELSE MIN_TO_USE_PEER
        difference == min_scored_for_location - finished_instructor_graded
        submissions_required == IF difference > 0 THEN difference ELSE 0
    IN  [location |-> location,
         num_graded |-> finished_instructor_graded,
         num_pending |-> submissions_pending,
         num_required |-> submissions_required,
         min_for_ml |-> MIN_TO_USE_ML]

\* views.py lines 275-276: the distinct locations of the submissions of the
\* course, in the order of Locations.
locations_for_course(course_id) ==
    SelectSeq(Locations, LAMBDA l :
        \E s \in SubmissionIds : CourseOf(s) = course_id /\ LocationOf(s) = l)

\* views.get_problem_list
get_problem_list(method, course_id) ==
    LET req == [RequestOf("get_problem_list") EXCEPT
                    !.method = method, !.course_id = course_id]
        locs == locations_for_course(course_id)
    IN  IF method # "GET"
        THEN Answer([req EXCEPT !.course_id = ""],
                    ErrorResponse("Request needs to be GET.", ""))
        ELSE IF course_id = ""
        THEN Answer(req, ErrorResponse("Missing needed tag course_id", ""))
        ELSE IF Len(locs) = 0
        THEN Answer(req, ErrorResponse("No problems associated with course.", ""))
        ELSE Answer(req, DataResponse(
                 [problem_list |->
                      [k \in DOMAIN locs |-> location_dict(submissions, locs[k])]]))

GetProblemList ==
    \E method \in {"GET", "POST"} :
    \E course_id \in {"", "c1", "c2"} :
        get_problem_list(method, course_id)

\* Mutant of get_notifications: the notification hands the pending
\* submissions of the course to a grader.
get_notifications_ClaimsPending(method, course_id) ==
    /\ request' = [RequestOf("get_notifications") EXCEPT
                       !.method = method, !.course_id = course_id]
    /\ response' = DataResponse([staff_needs_to_grade |-> TRUE])
    /\ result' = NoResult
    /\ submissions' =
           [s \in SubmissionIds |->
               IF CourseOf(s) = course_id /\ IsPending(submissions[s])
               THEN [submissions[s] EXCEPT !.state = SubmissionState.being_graded]
               ELSE submissions[s]]
    /\ UNCHANGED <<graders, handed>>

\* views.get_notifications
get_notifications(method, course_id) ==
    LET req == [RequestOf("get_notifications") EXCEPT
                    !.method = method, !.course_id = course_id]
        noted == notifications(submissions, course_id)
    IN  IF method # "GET"
        THEN Answer([req EXCEPT !.course_id = ""],
                    ErrorResponse("Request needs to be GET.", ""))
        ELSE IF course_id = ""
        THEN Answer(req, ErrorResponse("Missing needed tag course_id", ""))
        ELSE IF ~noted.success
        THEN Answer(req, ErrorResponse(noted.staff_needs_to_grade, ""))
        ELSE Answer(req, DataResponse(
                 [staff_needs_to_grade |-> noted.staff_needs_to_grade]))

GetNotifications ==
    \E method \in {"GET", "POST"} :
    \E course_id \in {"", "c1", "c2"} :
        get_notifications(method, course_id)

\* Submissions enter waiting to be graded, the first grader type chosen by
\* the ingestion; nothing has been requested yet.
Init ==
    /\ submissions \in [SubmissionIds -> {NewSubmission(t) : t \in {"IN", "PE"}}]
    /\ graders = <<>>
    /\ request = NoRequest
    /\ response = NoResponse
    /\ result = NoResult
    /\ handed = [s \in SubmissionIds |-> <<>>]

Next ==
    \/ GetNextSubmission
    \/ SaveGrade
    \/ ReadAggregateResult
    \/ ReadLastInstructorResult
    \/ GetProblemList
    \/ GetNotifications

Spec == Init /\ [][Next]_vars

\* ================================================================ properties
\* ------------------------------------------------ aggregation (SpecAgg)
\* The aggregation has been called in this state, and what it gave.
Aggregated == result.call = "get_all_successful_scores_and_feedback"

AggValue == result.value

AggReturned == Aggregated /\ ~IsException(AggValue)

AggRows == {i \in DOMAIN graders : graders[i].submission = AggSubmission}

AggSuccessful == {i \in AggRows : graders[i].status_code = "S"}

AggFailed == {i \in AggRows : graders[i].status_code = "F"}

AggSuccessfulPeers == {i \in AggSuccessful : graders[i].grader_type = "PE"}

\* The row of S modified last.
Newest(S) == CHOOSE i \in S : \A j \in S : graders[j].date_modified <= graders[i].date_modified

AggPrevious == submissions[AggSubmission].previous_grader_type

\* The aggregation returned the parallel-list result of peer grading.
AggPeerList ==
    /\ AggReturned
    /\ AggValue.success = TRUE
    /\ AggValue.grader_type = "PE"

\* C2: with at least one attempt and no successful attempt, the aggregation
\* returns success = false, score = 0 and the feedback and grader type of the
\* failed attempt modified last, whatever previous_grader_type is.
C2_FailedAttemptReported ==
    (Aggregated /\ AggRows # {} /\ AggSuccessful = {}) =>
        /\ AggReturned
        /\ AggValue.success = FALSE
        /\ AggValue.score = 0
        /\ AggValue.feedback = graders[Newest(AggFailed)].feedback
        /\ AggValue.grader_type = graders[Newest(AggFailed)].grader_type

\* C3: when the newest successful attempt is of type Instructor or ML, the
\* aggregation returns that attempt's score, feedback, grader type and id
\* (scalars) with success = true, whatever successful peer attempts precede it.
C3_AuthoritativeAttemptReported ==
    (/\ Aggregated
     /\ AggSuccessful # {}
     /\ graders[Newest(AggSuccessful)].grader_type \in {"IN", "ML"}) =>
        /\ AggReturned
        /\ AggValue.success = TRUE
        /\ AggValue.score = graders[Newest(AggSuccessful)].score
        /\ AggValue.feedback = graders[Newest(AggSuccessful)].feedback
        /\ AggValue.grader_type = graders[Newest(AggSuccessful)].grader_type
        /\ AggValue.grader_id = Newest(AggSuccessful)

\* C4 as claimed: a history that contains a successful Instructor or ML
\* attempt never gets the peer parallel-list result.
C4_NoPeerListWithAuthoritativeAttempt ==
    (/\ Aggregated
     /\ \E i \in AggSuccessful : graders[i].grader_type \in {"IN", "ML"}) =>
        ~AggPeerList

\* C4 as amended: a history whose newest successful attempt is Instructor or
\* ML never gets the peer parallel-list result, and the peer list is returned
\* only when previous_grader_type is Peer or the newest successful attempt is
\* a BasicCheck next to successful Peer attempts.
C4_NewestAuthoritativeOverridesPeers ==
    Aggregated =>
        /\ (/\ AggSuccessful # {}
            /\ graders[Newest(AggSuccessful)].grader_type \in {"IN", "ML"})
               => ~AggPeerList
        /\ AggPeerList =>
               /\ AggSuccessful # {}
               /\ \/ AggPrevious = "PE"
                  \/ /\ graders[Newest(AggSuccessful)].grader_type = "BC"
                     /\ AggSuccessfulPeers # {}

\* C4 witness: the newest successful attempt is an Instructor or ML attempt
\* after a successful peer attempt, previous_grader_type is Peer, and the
\* aggregation returned the single authoritative result.
C4_Witness ==
    /\ AggReturned
    /\ AggSuccessfulPeers # {}
    /\ AggPrevious = "PE"
    /\ graders[Newest(AggSuccessful)].grader_type \in {"IN", "ML"}
    /\ AggValue.success = TRUE
    /\ AggValue.grader_type = graders[Newest(AggSuccessful)].grader_type

\* What the rubric lists of a peer result hold for one attempt, by the
\* rubric_set the attempt was stored with.
ExpectedRubricXml(g) ==
    IF g.rubric_set = NoRubric THEN <<>>
    ELSE << <<"rubric">>, <<"category", "Clarity", 2>>, <<"category", "Grammar", 1>>,
            <<"/rubric">> >>

ExpectedRubricHeaders(g) ==
    IF g.rubric_set = NoRubric THEN <<>> ELSE <<"Clarity", "Grammar">>

ExpectedRubricScores(g) ==
    IF g.rubric_set = NoRubric THEN <<>> ELSE <<250, 100>>

\* C5: a peer result reports at most MAX_GRADER_COUNT entries, the successful
\* peer attempts modified last, newest first, and all its lists have the same
\* length with position k of each list describing the same attempt.
C5_PeerListBoundedAndParallel ==
    AggPeerList =>
        LET ids == AggValue.grader_id
            n == Len(ids)
        IN  /\ n <= MAX_GRADER_COUNT
            /\ n = (IF Cardinality(AggSuccessfulPeers) < MAX_GRADER_COUNT
                    THEN Cardinality(AggSuccessfulPeers) ELSE MAX_GRADER_COUNT)
            /\ \A k \in 1..n : ids[k] \in AggSuccessfulPeers
            /\ \A k \in 1..n : \A m \in 1..n :
                   k < m => graders[ids[k]].date_modified > graders[ids[m]].date_modified
            /\ \A i \in AggSuccessfulPeers :
                   (\A k \in 1..n : ids[k] # i) =>
                       \A k \in 1..n :
                           graders[i].date_modified < graders[ids[k]].date_modified
            /\ Len(AggValue.score) = n
            /\ Len(AggValue.feedback) = n
            /\ Len(AggValue.rubric_xml) = n
            /\ Len(AggValue.rubric_scores_complete) = n
            /\ Len(AggValue.rubric_headers) = n
            /\ Len(AggValue.rubric_scores) = n
            /\ \A k \in 1..n :
                   /\ AggValue.score[k] = graders[ids[k]].score
                   /\ AggValue.feedback[k] = graders[ids[k]].feedback
                   /\ AggValue.rubric_scores_complete[k] =
                          (graders[ids[k]].rubric_set # NoRubric)
                   /\ AggValue.rubric_xml[k] = ExpectedRubricXml(graders[ids[k]])
                   /\ AggValue.rubric_headers[k] = ExpectedRubricHeaders(graders[ids[k]])
                   /\ AggValue.rubric_scores[k] = ExpectedRubricScores(graders[ids[k]])

\* C5 witness: more successful peer attempts than MAX_GRADER_COUNT, one of
\* the reported ones with a finished rubric, and a peer result was returned.
C5_Witness ==
    /\ AggPeerList
    /\ Cardinality(AggSuccessfulPeers) > MAX_GRADER_COUNT
    /\ Len(AggValue.grader_id) = MAX_GRADER_COUNT
    /\ \E k \in 1..Len(AggValue.grader_id) : AggValue.rubric_scores_complete[k]

\* C6: with successful attempts that match neither the authoritative rule
\* (newest successful is Instructor / ML, or BasicCheck) nor the peer rule
\* (previous_grader_type Peer, or BasicCheck next to peers), the aggregation
\* returns the inconsistent-state failure, success = false and score = -1,
\* and no attempt's score or id.
C6_InconsistentHistorySurfaced ==
    (/\ Aggregated
     /\ AggSuccessful # {}
     /\ graders[Newest(AggSuccessful)].grader_type \notin {"IN", "ML", "BC"}
     /\ AggPrevious # "PE") =>
        /\ AggReturned
        /\ AggValue.success = FALSE
        /\ AggValue.score = -1
        /\ \A i \in AggRows : AggValue.score # graders[i].score
        /\ "grader_id" \notin DOMAIN AggValue

\* C6 witness: the newest successful attempt is a peer attempt,
\* previous_grader_type is not Peer, and the failure result was returned.
C6_Witness ==
    /\ AggReturned
    /\ AggSuccessful # {}
    /\ graders[Newest(AggSuccessful)].grader_type = "PE"
    /\ AggPrevious # "PE"
    /\ AggValue.score = -1

\* C7: on a submission without any attempt the aggregation gives an error
\* result (success = false, no score of an attempt) and raises no exception.
C7_NoAttemptsIsErrorResult ==
    (Aggregated /\ AggRows = {}) =>
        /\ ~IsException(AggValue)
        /\ AggValue.success = FALSE

\* ---------------------------------------------------- staff grading (Spec)
\* The last request was a save_grade that reached submission s.
SavedOn(s) == request.op = "save_grade" /\ request.submission_id = s

AttemptsOf(s) == {i \in DOMAIN graders : graders[i].submission = s}

\* C1: between one claim and the next skip or recorded attempt a submission
\* is handed to at most one staff grader, whatever the order in which the
\* get_next_submission calls of different graders are served; it is held by
\* a grader exactly while it is being graded.
C1_HandedToAtMostOneGrader ==
    \A s \in SubmissionIds :
        /\ Len(handed[s]) <= 1
        /\ (handed[s] # <<>>) <=> (submissions[s].state = SubmissionState.being_graded)

\* C1 witness: a submission is held by one grader, and another grader's
\* get_next_submission for a scope that contains it did not receive it.
C1_Witness ==
    \E s \in SubmissionIds :
        /\ handed[s] # <<>>
        /\ request.op = "get_next_submission"
        /\ request.grader_id \in Staff
        /\ request.grader_id # handed[s][1]
        /\ InScope(s, request.course_id, request.location)
        /\ response.success = TRUE
        /\ response.submission_id # s

\* C8: a save_grade with skipped = "True" on a submission that is being
\* graded succeeds, returns the submission to waiting_to_be_graded, creates
\* no Grader row (whatever score and feedback it carries), leaves the
\* grader-type fields alone, and the submission is pending again: a
\* get_next_submission for its location finds it or an older one.
C8_SkipReturnsSubmissionToQueue ==
    [][\A s \in SubmissionIds :
          (/\ request'.op = "save_grade"
           /\ request'.submission_id = s
           /\ request'.skipped = "True"
           /\ submissions[s].state = SubmissionState.being_graded) =>
              /\ response'.success = TRUE
              /\ submissions'[s] =
                     [submissions[s] EXCEPT !.state = SubmissionState.waiting_to_be_graded]
              /\ graders' = graders
              /\ IsPending(submissions'[s])
              /\ next_item(submissions', "", LocationOf(s)).found
              /\ next_item(submissions', "", LocationOf(s)).sid <= s]_vars

\* C8 witness: a skip of a submission has just succeeded; the submission
\* waits to be graded and has no attempt.
C8_Witness ==
    \E s \in SubmissionIds :
        /\ SavedOn(s)
        /\ request.skipped = "True"
        /\ response.success = TRUE
        /\ submissions[s].state = SubmissionState.waiting_to_be_graded
        /\ AttemptsOf(s) = {}

\* C9: a save_grade without skip that reaches a submission which is not
\* being graded fails, creates no Grader row and changes no Submission row.
C9_RecordNeedsClaim ==
    [][\A s \in SubmissionIds :
          (/\ request'.op = "save_grade"
           /\ request'.submission_id = s
           /\ request'.skipped # "True"
           /\ submissions[s].state # SubmissionState.being_graded) =>
              /\ response'.success = FALSE
              /\ response'.error = "grade_save_error"
              /\ graders' = graders
              /\ submissions' = submissions]_vars

\* C9 witness: a grade was sent for a submission that waits to be graded and
\* was never graded; it was refused.
C9_Witness ==
    \E s \in SubmissionIds :
        /\ SavedOn(s)
        /\ request.skipped # "True"
        /\ response.success = FALSE
        /\ response.msg = "Internal error"
        /\ submissions[s].state = SubmissionState.waiting_to_be_graded
        /\ submissions[s].next_grader_type = "IN"
        /\ AttemptsOf(s) = {}

\* C10: a save_grade (grade or skip) takes effect only on a submission that
\* is being graded, and ends the claim: it adds at most one Grader row, and
\* the next mutating request on the same claim finds the submission no
\* longer being graded.  A submission holds at most one instructor attempt
\* per claim: none while it is being graded for the first time.
C10_OneEffectPerClaim ==
    [][\A s \in SubmissionIds :
          (/\ request'.op = "save_grade"
           /\ request'.submission_id = s
           /\ response'.success = TRUE) =>
              /\ submissions[s].state = SubmissionState.being_graded
              /\ submissions'[s].state # SubmissionState.being_graded
              /\ Len(graders') <= Len(graders) + 1
              /\ \A i \in AttemptsOf(s)' : i \in AttemptsOf(s) \/ i = Len(graders')]_vars

\* C10 witness: of two mutating requests on one claim the first recorded an
\* attempt and the second, arriving when the submission was no longer being
\* graded, was refused.
C10_Witness ==
    \E s \in SubmissionIds :
        /\ SavedOn(s)
        /\ response.success = FALSE
        /\ Cardinality(AttemptsOf(s)) = 1
        /\ submissions[s].state # SubmissionState.being_graded

\* C11: a get_next_submission that answers with a submission_id hands out a
\* submission that was waiting to be graded with next_grader_type IN, of the
\* location asked for when one is given and of the course asked for
\* otherwise; the submission is being graded afterwards and no other
\* submission changed (one claim per request).  Finished, flagged and
\* being_graded submissions are therefore never handed out.
C11_HandsOutOnlyPendingOfScope ==
    [][\A s \in SubmissionIds :
          (/\ request'.op = "get_next_submission"
           /\ response'.success = TRUE
           /\ response'.submission_id = s) =>
              /\ submissions[s].state = SubmissionState.waiting_to_be_graded
              /\ submissions[s].next_grader_type = "IN"
              /\ IF request'.location # ""
                 THEN LocationOf(s) = request'.location
                 ELSE CourseOf(s) = request'.course_id
              /\ submissions'[s].state = SubmissionState.being_graded
              /\ \A other \in SubmissionIds \ {s} :
                     submissions'[other] = submissions[other]]_vars

\* C11 witness: a request for a course handed out a submission while an
\* older submission of the same course was finished, flagged or being
\* graded, and so was passed over.
C11_Witness ==
    \E s \in SubmissionIds :
        /\ request.op = "get_next_submission"
        /\ request.location = ""
        /\ response.success = TRUE
        /\ response.submission_id = s
        /\ submissions[s].state = SubmissionState.being_graded
        /\ \E other \in SubmissionIds :
               /\ other < s
               /\ CourseOf(other) = request.course_id
               /\ submissions[other].next_grader_type = "IN"
               /\ submissions[other].state \in
                      {SubmissionState.finished, SubmissionState.flagged,
                       SubmissionState.being_graded}

\* C12: in every reachable state the state of each submission is one of the
\* five codes W (waiting_to_be_graded), C (being_graded), F (finished),
\* L (flagged), S (skipped), and the five codes are distinct, so exactly one
\* of the five states holds.
C12_StateIsOneOfFive ==
    /\ \A s \in SubmissionIds : submissions[s].state \in {"W", "C", "F", "L", "S"}
    /\ Cardinality({SubmissionState.waiting_to_be_graded, SubmissionState.being_graded,
                    SubmissionState.finished, SubmissionState.flagged,
                    SubmissionState.skipped}) = 5

\* C12 witness: claims and recorded attempts have acted; one submission
\* ended flagged and another finished.
C12_Witness ==
    \E s, other \in SubmissionIds :
        /\ submissions[s].state = "L"
        /\ submissions[other].state = "F"
        /\ AttemptsOf(s) # {}
        /\ AttemptsOf(other) # {}

\* C13: a Grader row, once created, is the same row in every later state:
\* its score, feedback and status_code (and every other field) never change,
\* and no row is removed, so the attempts of a submission only grow.
C13_AttemptsAreImmutable ==
    [][\A i \in DOMAIN graders :
          /\ i \in DOMAIN graders'
          /\ graders'[i].score = graders[i].score
          /\ graders'[i].feedback = graders[i].feedback
          /\ graders'[i].status_code = graders[i].status_code
          /\ graders'[i].submission = graders[i].submission]_vars

\* C13 witness: a second attempt has been recorded after a first one, which
\* ended in a flag, and is still what it was when staff recorded it.
C13_Witness ==
    /\ Len(graders) >= 2
    /\ submissions[graders[1].submission].state = SubmissionState.flagged
    /\ graders[1].score = 7
    /\ graders[1].feedback = "fine work"
    /\ graders[1].status_code = GraderStatus.success
    /\ SavedOn(graders[2].submission)
    /\ response.success = TRUE

\* C16: a save_grade that answers with an error (a parameter is missing,
\* the score is no integer, the submission id is unknown, the rubric scores
\* do not fit, the attempt or the skip is refused) leaves every Submission
\* row (state, next and previous grader type) and every Grader row as it
\* was.
C16_FailedSaveGradeWritesNothing ==
    [][(request'.op = "save_grade" /\ response'.success = FALSE) =>
          /\ submissions' = submissions
          /\ graders' = graders]_vars

\* C16 witness: while a submission is being graded a save_grade was refused
\* because its rubric scores do not fit; the submission is still being
\* graded and has no attempt.
C16_Witness ==
    \E s \in SubmissionIds :
        /\ request.op = "save_grade"
        /\ response.success = FALSE
        /\ response.msg = "rubric scores do not fit"
        /\ submissions[s].state = SubmissionState.being_graded
        /\ RubricParses(s)
        /\ AttemptsOf(s) = {}

\* C17: a get_next_submission with its parameters, for a scope in which no
\* submission waits to be graded by an instructor, answers with a success
\* response that carries a message and no submission_id, not with an error,
\* and changes no Submission and no Grader row.
C17_NothingToGradeIsSuccess ==
    [][(/\ request'.op = "get_next_submission"
        /\ request'.grader_id # ""
        /\ \A s \in SubmissionIds :
               ~(/\ IF request'.location # ""
                    THEN LocationOf(s) = request'.location
                    ELSE CourseOf(s) = request'.course_id
                 /\ submissions[s].state = SubmissionState.waiting_to_be_graded
                 /\ submissions[s].next_grader_type = "IN")) =>
          /\ response'.success = TRUE
          /\ response'.error = ""
          /\ response'.message # ""
          /\ response'.submission_id = 0
          /\ submissions' = submissions
          /\ graders' = graders]_vars

\* C17 witness: the only submission of a location is being graded, and a
\* request for that location was answered with the message.
C17_Witness ==
    \E s \in SubmissionIds :
        /\ request.op = "get_next_submission"
        /\ request.location = LocationOf(s)
        /\ response.success = TRUE
        /\ response.message # ""
        /\ response.submission_id = 0
        /\ submissions[s].state = SubmissionState.being_graded

\* C18: a submission that is being graded is still being graded after every
\* step, except a save_grade for that submission that succeeded (a skip, a
\* recorded attempt or a flag); and no get_next_submission hands it out
\* while it is being graded.
C18_ClaimLastsUntilSkipOrAttempt ==
    [][\A s \in SubmissionIds :
          submissions[s].state = SubmissionState.being_graded =>
              /\ \/ submissions'[s].state = SubmissionState.being_graded
                 \/ /\ request'.op = "save_grade"
                    /\ request'.submission_id = s
                    /\ response'.success = TRUE
              /\ ~(/\ request'.op = "get_next_submission"
                   /\ response'.submission_id = s)]_vars

\* C18 witness: a submission is still being graded, by the grader it was
\* handed to, after an attempt was recorded for another submission.
C18_Witness ==
    \E s, other \in SubmissionIds :
        /\ s # other
        /\ submissions[s].state = SubmissionState.being_graded
        /\ handed[s] # <<>>
        /\ SavedOn(other)
        /\ request.skipped # "True"
        /\ response.success = TRUE
        /\ AttemptsOf(other) # {}

\* The controller has just read the result of submission s.
AggregateReadOf(s) ==
    /\ request.op = "get_all_successful_scores_and_feedback"
    /\ request.submission_id = s

RubricModelItems == graders[1].rubric_set[1].items

\* The place of item i when the items are counted by item_number: one more
\* than the number of items with a smaller item_number.
PlaceOf(i) ==
    1 + Cardinality({j \in DOMAIN RubricModelItems :
                        RubricModelItems[j].item_number
                            < RubricModelItems[i].item_number})

\* C14: the headers and the scores of a rubric have one entry per item,
\* and the entry at the place an item has by ascending item_number is that
\* item's text, respectively that item's score, whatever the insertion
\* order: the two lists have equal length and agree on the item at each
\* position.
C14_HeadersAndScoresByItemNumber ==
    result.call = "get_latest_rubric_headers_and_scores" =>
        /\ Len(result.value.rubric_headers) = Len(RubricModelItems)
        /\ Len(result.value.rubric_scores) = Len(RubricModelItems)
        /\ \A i \in DOMAIN RubricModelItems :
               /\ result.value.rubric_headers[PlaceOf(i)] = RubricModelItems[i].text
               /\ result.value.rubric_scores[PlaceOf(i)] = RubricModelItems[i].score

\* C14 witness: the headers and scores of a rubric of MaxItems items,
\* inserted in descending item_number order with different texts and
\* scores, have been computed.
C14_Witness ==
    /\ result.call = "get_latest_rubric_headers_and_scores"
    /\ Len(RubricModelItems) = MaxItems
    /\ \A i, j \in DOMAIN RubricModelItems :
           i < j => RubricModelItems[i].item_number > RubricModelItems[j].item_number
    /\ RubricModelItems[1].text # RubricModelItems[MaxItems].text
    /\ RubricModelItems[1].score # RubricModelItems[MaxItems].score
    /\ result.value.rubric_headers[1] = RubricModelItems[MaxItems].text
    /\ result.value.rubric_scores[1] = RubricModelItems[MaxItems].score

\* ------------------------------------------- aggregation, continued (SpecAgg)
\* The attempts of the aggregated submission whose rubrics are all unfinished.
AggUnfinishedOnly ==
    {i \in AggRows :
        /\ graders[i].rubric_set # <<>>
        /\ \A k \in DOMAIN graders[i].rubric_set :
               ~graders[i].rubric_set[k].finished_scoring}

\* C15: the aggregation over a history that contains an attempt whose only
\* rubrics are unfinished returns a result (raises no exception), and when
\* the attempt reported is such an attempt its rubric summary is
\* rubric_scores_complete = false with empty rubric_xml, headers and scores.
C15_UnfinishedRubricIsNoScore ==
    (Aggregated /\ AggUnfinishedOnly # {}) =>
        /\ AggReturned
        /\ (AggValue.grader_type # "PE" /\ "grader_id" \in DOMAIN AggValue
              /\ AggValue.grader_id \in AggUnfinishedOnly) =>
               /\ AggValue.rubric_scores_complete = FALSE
               /\ AggValue.rubric_xml = <<>>
               /\ AggValue.rubric_headers = <<>>
               /\ AggValue.rubric_scores = <<>>

\* The successful instructor attempts of the aggregated submission.
AggSuccessfulInstructors == {i \in AggSuccessful : graders[i].grader_type = "IN"}

\* C19: get_last_successful_instructor_grader returns the score and the
\* rubric of the successful instructor attempt created last, whatever other
\* attempts the submission has, and score = -1 with the empty rubric when
\* there is no successful instructor attempt.
C19_LastInstructorResult ==
    result.call = "get_last_successful_instructor_grader" =>
        /\ ~IsException(result.value)
        /\ IF AggSuccessfulInstructors = {}
           THEN /\ result.value.score = -1
                /\ result.value.rubric = <<>>
           ELSE LET last == CHOOSE i \in AggSuccessfulInstructors :
                                \A j \in AggSuccessfulInstructors :
                                    graders[j].date_created <= graders[i].date_created
                IN  /\ result.value.score = graders[last].score
                    /\ result.value.rubric = ExpectedRubricXml(graders[last])

\* The peer attempts of the aggregated submission, successful or failed.
AggPeersOfAnyStatus == {i \in AggRows : graders[i].grader_type = "PE"}

\* The aggregation returned a result and the successful attempt modified
\* last is a basic check.
AggNewestIsBasicCheck ==
    /\ AggReturned
    /\ AggSuccessful # {}
    /\ graders[Newest(AggSuccessful)].grader_type = "BC"

\* The result is the basic check modified last, alone.
AggBasicCheckAlone ==
    /\ AggValue.success = TRUE
    /\ AggValue.grader_type = "BC"
    /\ AggValue.grader_id = Newest(AggSuccessful)
    /\ AggValue.score = graders[Newest(AggSuccessful)].score
    /\ AggValue.feedback = graders[Newest(AggSuccessful)].feedback

AggLastCreated ==
    CHOOSE i \in AggRows : \A j \in AggRows : graders[j].date_created <= graders[i].date_created

\* C21: previous_grader_type is NA on every submission without attempts;
\* when set_previous_grader_type has returned, it is the grader_type of the
\* attempt created last; and called on a submission without attempts it
\* does not return and leaves previous_grader_type NA.
C21_PreviousGraderTypeFromLastAttempt ==
    /\ \A s \in SubmissionIds :
           submissions[s].previous_grader_type # "NA" =>
               \E i \in DOMAIN graders : graders[i].submission = s
    /\ result.call = "set_previous_grader_type" =>
           IF AggRows = {}
           THEN /\ IsException(result.value)
                /\ AggPrevious = "NA"
           ELSE /\ ~IsException(result.value)
                /\ AggPrevious = graders[AggLastCreated].grader_type

\* C21 witness: set_previous_grader_type has returned on a submission whose
\* first and last attempts have different grader types, neither of them NA.
C21_Witness ==
    /\ result.call = "set_previous_grader_type"
    /\ ~IsException(result.value)
    /\ Cardinality(AggRows) >= 2
    /\ \E i \in AggRows :
           /\ i < AggLastCreated
           /\ graders[i].grader_type # graders[AggLastCreated].grader_type
    /\ AggPrevious = graders[AggLastCreated].grader_type

\* C22: a peer result (success = true, grader_type PE) has at least one
\* entry, and every entry is a successful peer attempt of the aggregated
\* submission; no empty list is reported as a success.
C22_PeerListIsNeverEmpty ==
    AggPeerList =>
        /\ Len(AggValue.grader_id) >= 1
        /\ Len(AggValue.score) >= 1
        /\ \A k \in DOMAIN AggValue.grader_id :
               AggValue.grader_id[k] \in AggSuccessfulPeers

\* ------------------------------------------------- the lists of staff (Spec)

\* The operations that only read.
ReadOnlyOperations ==
    {"get_all_successful_scores_and_feedback",
     "get_last_successful_instructor_grader",
     "get_problem_list", "get_notifications"}

\* C24: a step of Aggregate, LastInstructorResult, get_problem_list or
\* get_notifications, taken in any state and between any other requests,
\* leaves every submission (state, next and previous grader type) and every
\* attempt as it was.
C24_ReadsChangeNothing ==
    [][request'.op \in ReadOnlyOperations =>
           /\ submissions' = submissions
           /\ graders' = graders
           /\ handed' = handed]_vars

\* C24 witness: the problem list was answered while one submission is being
\* graded and another has an attempt.
C24_Witness ==
    /\ request.op = "get_problem_list"
    /\ response.success
    /\ graders # <<>>
    /\ \E s \in SubmissionIds : submissions[s].state = SubmissionState.being_graded

\* The problem list answered last.
ProblemListed == request.op = "get_problem_list" /\ response.success

ProblemList == response.data.problem_list

\* The submissions to grade before the automated grader of the location of
\* an entry can be used.
MinToUse(location) ==
    IF \E s \in SubmissionIds :
           LocationOf(s) = location /\ PreferredGraderTypeOf(s) = "ML"
    THEN MIN_TO_USE_ML
    ELSE MIN_TO_USE_PEER

\* C25: in every entry of a problem list, num_required is M - num_graded
\* when that is positive and 0 otherwise, M being MIN_TO_USE_ML when a
\* submission of the location prefers ML and MIN_TO_USE_PEER otherwise; it
\* is never negative and is 0 once num_graded has reached M.
C25_NumRequired ==
    ProblemListed =>
        \A k \in DOMAIN ProblemList :
            LET entry == ProblemList[k]
                M == MinToUse(entry.location)
            IN  /\ entry.num_required =
                       IF M - entry.num_graded > 0 THEN M - entry.num_graded ELSE 0
                /\ entry.num_required >= 0
                /\ entry.num_graded >= M => entry.num_required = 0

\* C25 witness: a problem list with an entry that still requires grading
\* under MIN_TO_USE_ML and an entry of a location without ML whose graded
\* count has passed MIN_TO_USE_PEER.
C25_Witness ==
    /\ ProblemListed
    /\ \E k \in DOMAIN ProblemList :
           /\ MinToUse(ProblemList[k].location) = MIN_TO_USE_ML
           /\ ProblemList[k].num_required > 0
    /\ \E k \in DOMAIN ProblemList :
           /\ MinToUse(ProblemList[k].location) = MIN_TO_USE_PEER
           /\ ProblemList[k].num_graded > MIN_TO_USE_PEER
           /\ ProblemList[k].num_required = 0

====
